---- MODULE Spec2Model ----
(***************************************************************************)
(* A model of experiments/run_online_unimaus.py: the OnlineUnimaus facade  *)
(* (online simulation driver, log buffer, feature pipeline).               *)
(*                                                                         *)
(* The transaction model (UniMausTransactionModel), its log collector and  *)
(* the two feature constructors are collaborators whose code lives in      *)
(* other files; they are modelled at their interface.                      *)
(***************************************************************************)
EXTENDS Integers, Sequences, FiniteSets

\* ------------------------------------------------------------------ bounds
\* number of simulated hours before the model's end_date is passed
Horizon == 2
\* number of customers (agents) of the model
NumAgents == 2
\* largest num_steps a caller passes to step_simulator
MaxNumSteps == 2

\* how many columns of the full schema a caller's Dataset may lack
MaxMissing == 1
\* how many update_feature_constructors_unlabeled calls succeed
MaxUpdates == 1

Agents == 1..NumAgents
\* num_steps arguments tried: negative, zero, and 1..MaxNumSteps
StepArgs == (0 - 1)..MaxNumSteps

\* the agent reporters of the log collector, in dictionary order
ReporterNames == <<"Global_Date", "CardID">>
Reporters == {ReporterNames[i] : i \in 1..Len(ReporterNames)}

VARIABLES
    terminated,     \* self.model.terminated
    clock,          \* the model's simulated clock, in hours since the start
    agent_vars,     \* self.model.log_collector.agent_vars:
                    \*   reporter name -> list (one per collect) of lists of
                    \*   (agent id, value) records
    aggregate_feature_constructor,      \* self.aggregate_feature_constructor
    apate_graph_feature_constructor,    \* self.apate_graph_feature_constructor
    ret,            \* the last call on the facade: its arguments and result
    falseReturned,  \* history: some step_simulator call has returned False
    drained,        \* history: a clearing get_log has returned and
                    \*   step_simulator has not been called since
    emitted,        \* history: every row the model has logged so far
    delivered,      \* history: rows of the returned logs the caller collected
    overlap,        \* history: rows found in more than one collected log
    mark,           \* history: one earlier get_log call the caller remembers
    trueReturns,    \* history: how many step_simulator calls returned True
    main            \* the __main__ script: where it is, and its settings

driver == <<terminated, clock, agent_vars>>
pipeline == <<aggregate_feature_constructor, apate_graph_feature_constructor>>
history == <<falseReturned, drained, emitted, delivered, overlap, mark,
             trueReturns>>
vars == <<driver, pipeline, ret, history, main>>

\* ------------------------------------------------------------- helpers
Range(s) == {s[i] : i \in 1..Len(s)}

RECURSIVE Flatten(_)
Flatten(ss) == IF ss = <<>> THEN <<>> ELSE Head(ss) \o Flatten(Tail(ss))

\* keeps the first occurrence of every element (dictionary key insertion)
RECURSIVE Dedupe(_)
Dedupe(s) ==
    IF s = <<>> THEN <<>>
    ELSE LET init == Dedupe(SubSeq(s, 1, Len(s) - 1))
             last == s[Len(s)]
         IN  IF last \in Range(init) THEN init ELSE Append(init, last)

\* ------------------------------------------- the transaction model (Mesa)
\* the value an agent reporter reads off an agent at collection time
reporter(var, agent, now) == IF var = "Global_Date" THEN now ELSE agent

\* the records one collect() appends for a reporter: one (agent id, value)
\* pair per agent that made a transaction, in agent order
collect(var, active, now) ==
    LET ids == SelectSeq([a \in 1..NumAgents |-> a], LAMBDA a : a \in active)
    IN  [i \in 1..Len(ids) |-> <<ids[i], reporter(var, ids[i], now)>>]

\* model.step(): the agents in `active` make a transaction, the log collector
\* collects, the clock advances one hour, and the model terminates once the
\* clock has passed the end date
model_step(m, active) ==
    [terminated |-> m.clock + 1 >= Horizon,
     clock      |-> m.clock + 1,
     agent_vars |-> [var \in DOMAIN m.agent_vars |->
                        Append(m.agent_vars[var], collect(var, active, m.clock))]]

\* log_collector.get_agent_vars_dataframe(): one row per (step, agent id)
\* key, holding the value of every reporter that has a record for the key
VarKeys(records) ==
    Flatten([s \in 1..Len(records) |->
                [e \in 1..Len(records[s]) |-> <<s - 1, records[s][e][1]>>]])

HasRecord(records, key) ==
    /\ key[1] + 1 \in 1..Len(records)
    /\ \E e \in 1..Len(records[key[1] + 1]) : records[key[1] + 1][e][1] = key[2]

RecordValue(records, key) ==
    LET entries == records[key[1] + 1]
        e == CHOOSE i \in 1..Len(entries) :
                 /\ entries[i][1] = key[2]
                 /\ \A j \in (i + 1)..Len(entries) : entries[j][1] # key[2]
    IN  entries[e][2]

get_agent_vars_dataframe(av) ==
    LET keys == Dedupe(Flatten([k \in 1..Len(ReporterNames) |->
                                    VarKeys(av[ReporterNames[k]])]))
    IN  [i \in 1..Len(keys) |->
            [index |-> keys[i],
             cols  |-> [var \in {v \in Reporters : HasRecord(av[v], keys[i])} |->
                           RecordValue(av[var], keys[i])]]]

\* pandas MultiIndex.droplevel(level), levels counted from 0: every row's
\* index tuple loses that level
droplevel(frame, level) ==
    [i \in 1..Len(frame) |->
        [index |-> LET idx == frame[i].index
                       kept == SelectSeq([l \in 1..Len(idx) |-> l],
                                         LAMBDA l : l # level + 1)
                   IN  [l \in 1..Len(kept) |-> idx[kept[l]]],
         cols  |-> frame[i].cols]]


\* ------------------------------------------------------- OnlineUnimaus
\* variant: clearing by starting a new model
clear_log_new_model(m) ==
    [terminated |-> FALSE, clock |-> 0,
     agent_vars |-> [var \in DOMAIN m.agent_vars |-> <<>>]]

\* variant: only the latest collect's records are emptied
clear_log_last_only(m) ==
    [m EXCEPT !.agent_vars =
        [var \in DOMAIN m.agent_vars |->
            [s \in 1..Len(m.agent_vars[var]) |->
                IF s = Len(m.agent_vars[var]) THEN <<>>
                                              ELSE m.agent_vars[var][s]]]]

\* variant: clearing the log also lowers the model's terminated flag
clear_log_rearms(m) ==
    [m EXCEPT !.terminated = FALSE,
              !.agent_vars =
                  [var \in DOMAIN m.agent_vars |->
                      [s \in 1..Len(m.agent_vars[var]) |-> <<>>]]]

\* clear_log: every per-collect record list is emptied; the outer list of
\* each reporter keeps its length
clear_log(m) ==
    [m EXCEPT !.agent_vars =
        [var \in DOMAIN m.agent_vars |->
            [s \in 1..Len(m.agent_vars[var]) |-> <<>>]]]

\* variant: clear_after=False by default
clear_after_default_false == FALSE

\* the default of get_log's clear_after parameter
clear_after_default == TRUE

\* the value of clear_after in a call get_log(*args)
clear_after(args) == IF args = <<>> THEN clear_after_default ELSE args[1]

\* variant: the log is cleared before the snapshot is taken
get_log_clear_first(m, args) ==
    LET cleared == IF clear_after(args) THEN clear_log(m) ELSE m
    IN  [log   |-> droplevel(get_agent_vars_dataframe(cleared.agent_vars), 1),
         model |-> cleared]

\* variant: the log is cleared whatever clear_after is
get_log_always_clear(m, args) ==
    [log   |-> droplevel(get_agent_vars_dataframe(m.agent_vars), 1),
     model |-> clear_log(m)]

\* get_log(*args): the snapshot is taken first, then the log is cleared
get_log(m, args) ==
    LET log == droplevel(get_agent_vars_dataframe(m.agent_vars), 1)
    IN  [log   |-> log,
         model |-> IF clear_after(args) THEN clear_log(m) ELSE m]

\* step_simulator(num_steps): the for loop from iteration `step` on.  The
\* first iteration that runs returns, whatever num_steps is; a loop that
\* runs no iteration falls off the end of the function (None).
\* `warned`: the WARNING line was printed.
step_loop(m, step, num_steps, active, advances) ==
    IF step >= num_steps
        THEN [model |-> m, value |-> "None", advances |-> advances,
              warned |-> FALSE]
    ELSE IF m.terminated
        THEN [model |-> m, value |-> "False", advances |-> advances,
              warned |-> TRUE]
    ELSE [model |-> model_step(m, active), value |-> "True",
          advances |-> advances + 1, warned |-> FALSE]

\* variant: the termination flag is not looked at
step_simulator_unguarded(m, num_steps, active) ==
    IF num_steps <= 0
        THEN [model |-> m, value |-> "None", advances |-> 0, warned |-> FALSE]
        ELSE [model |-> model_step(m, active), value |-> "True", advances |-> 1,
              warned |-> FALSE]

\* variant: the loop goes on to the next iteration after a successful unit
\* and returns True after the last one
RECURSIVE step_loop_all_units(_, _, _, _, _)
step_loop_all_units(m, step, num_steps, active, advances) ==
    IF step >= num_steps
        THEN [model |-> m, value |-> IF num_steps <= 0 THEN "None" ELSE "True",
              advances |-> advances, warned |-> FALSE]
    ELSE IF m.terminated
        THEN [model |-> m, value |-> "False", advances |-> advances,
              warned |-> TRUE]
    ELSE step_loop_all_units(model_step(m, active), step + 1, num_steps,
                             active, advances + 1)

step_simulator_all_units(m, num_steps, active) ==
    step_loop_all_units(m, 0, num_steps, active, 0)

\* variant: the model is stepped first and the flag is looked at afterwards
step_simulator_check_after(m, num_steps, active) ==
    IF num_steps <= 0
        THEN [model |-> m, value |-> "None", advances |-> 0, warned |-> FALSE]
    ELSE IF m.terminated
        THEN [model |-> m, value |-> "False", advances |-> 0, warned |-> TRUE]
    ELSE LET after == model_step(m, active)
         IN  [model |-> after,
              value |-> IF after.terminated THEN "False" ELSE "True",
              advances |-> 1, warned |-> after.terminated]

\* variant: the flag is looked at before the loop is entered
step_simulator_check_first(m, num_steps, active) ==
    IF m.terminated
        THEN [model |-> m, value |-> "False", advances |-> 0, warned |-> TRUE]
        ELSE step_loop(m, 0, num_steps, active, 0)

step_simulator(m, num_steps, active) == step_loop(m, 0, num_steps, active, 0)

\* --------------------------------------------- the feature constructors
\* an attribute that __init__ has set to None and nothing has assigned yet
None == [set |-> FALSE, data |-> <<>>, updates |-> 0]

\* AggregateFeatures(data), ApateGraphFeatures(data): fitted to `data`
AggregateFeatures(data) == [set |-> TRUE, data |-> data.columns, updates |-> 0]
ApateGraphFeatures(data) == [set |-> TRUE, data |-> data.columns, updates |-> 0]

\* the columns the constructors compute
GraphFeatureColumns == <<"CardID_graph_score", "MerchantID_graph_score">>
AggregateFeatureColumns == <<"Num_Transactions", "Sum_Amount">>

\* data[name] = ... for each name in turn, in place: a new name becomes the
\* last column, an existing column keeps its place
assign_columns(data, names) ==
    [data EXCEPT !.columns =
        @ \o SelectSeq(names, LAMBDA c : c \notin Range(data.columns))]

add_graph_features(constructor, data) ==
    assign_columns(data, GraphFeatureColumns)
add_aggregate_features(constructor, data) ==
    assign_columns(data, AggregateFeatureColumns)

\* AggregateFeatures.update_unlabeled(data)
update_unlabeled(constructor, data) ==
    [constructor EXCEPT !.updates = @ + 1]

\* ----------------------------------------------------------- DataFrame
\* data.drop(labels, inplace=True, axis=1): a KeyError, and no column
\* dropped, when a label is no column of data
\* variant: errors="ignore", labels that are no column are skipped
CanDrop_ignore(data, labels) == TRUE

CanDrop(data, labels) == Range(labels) \subseteq Range(data.columns)
drop(data, labels) ==
    [data EXCEPT !.columns = SelectSeq(@, LAMBDA c : c \notin Range(labels))]

\* data[keys]: a new DataFrame holding the columns named; a KeyError when a
\* key is no column of data
CanSelect(data, keys) == Range(keys) \subseteq Range(data.columns)
getitem(data, keys) == [id |-> data.id + 1, columns |-> keys]

\* ------------------------------------------- OnlineUnimaus, the pipeline
\* the columns process_data removes
DropList ==
    <<"Global_Date", "Local_Date", "CardID", "MerchantID", "Currency", "Country">>

\* variant: the columns are selected in the order they have
target_where_it_is(data) == data.columns

\* variant: Target is appended only when data has it
target_last_if_present(data) ==
    IF "Target" \in Range(data.columns)
        THEN SelectSeq(data.columns, LAMBDA col : col # "Target") \o <<"Target">>
        ELSE data.columns

\* [col for col in data if col != "Target"] + ["Target"]
target_last(data) ==
    SelectSeq(data.columns, LAMBDA col : col # "Target") \o <<"Target">>

NoFrame == [id |-> 0, columns |-> <<>>]

\* prepare_feature_constructors(data): both attributes are assigned
prepare_feature_constructors(data) ==
    [aggregate |-> AggregateFeatures(data), graph |-> ApateGraphFeatures(data)]

\* variant: the work is done on a copy that replaces the caller's columns
\* only once every step has succeeded
process_data_on_copy(graph, aggregate, data) ==
    IF ~graph.set \/ ~aggregate.set
        THEN [error |-> "AttributeError", data |-> data, value |-> NoFrame]
    ELSE LET d2 == add_aggregate_features(aggregate,
                       add_graph_features(graph, data)) IN
    IF ~CanDrop(d2, DropList)
        THEN [error |-> "KeyError", data |-> data, value |-> NoFrame]
    ELSE LET d3 == drop(d2, DropList) IN
    IF ~CanSelect(d3, target_last(d3))
        THEN [error |-> "KeyError", data |-> data, value |-> NoFrame]
    ELSE [error |-> "", data |-> d3, value |-> getitem(d3, target_last(d3))]

\* variant: the columns are dropped before the features are added
process_data_drop_first(graph, aggregate, data) ==
    IF ~CanDrop(data, DropList)
        THEN [error |-> "KeyError", data |-> data, value |-> NoFrame]
    ELSE LET d1 == drop(data, DropList) IN
    IF ~graph.set \/ ~aggregate.set
        THEN [error |-> "AttributeError", data |-> d1, value |-> NoFrame]
    ELSE LET d3 == add_aggregate_features(aggregate,
                       add_graph_features(graph, d1)) IN
    IF ~CanSelect(d3, target_last(d3))
        THEN [error |-> "KeyError", data |-> d3, value |-> NoFrame]
    ELSE [error |-> "", data |-> d3, value |-> getitem(d3, target_last(d3))]

\* process_data(data) with the constructors as they are: the error raised
\* ("" when none), the caller's DataFrame as the call leaves it, and the
\* DataFrame returned
process_data(graph, aggregate, data) ==
    IF ~graph.set
        THEN [error |-> "AttributeError", data |-> data, value |-> NoFrame]
    ELSE LET d1 == add_graph_features(graph, data) IN
    IF ~aggregate.set
        THEN [error |-> "AttributeError", data |-> d1, value |-> NoFrame]
    ELSE LET d2 == add_aggregate_features(aggregate, d1) IN
    IF ~CanDrop(d2, DropList)
        THEN [error |-> "KeyError", data |-> d2, value |-> NoFrame]
    ELSE LET d3 == drop(d2, DropList) IN
    IF ~CanSelect(d3, target_last(d3))
        THEN [error |-> "KeyError", data |-> d3, value |-> NoFrame]
    ELSE [error |-> "", data |-> d3, value |-> getitem(d3, target_last(d3))]

\* variant: a constructor that is not there is not updated
update_feature_constructors_unlabeled_lenient(aggregate, data) ==
    IF ~aggregate.set
        THEN [error |-> "", aggregate |-> aggregate]
        ELSE [error |-> "", aggregate |-> update_unlabeled(aggregate, data)]

\* update_feature_constructors_unlabeled(data)
update_feature_constructors_unlabeled(aggregate, data) ==
    IF ~aggregate.set
        THEN [error |-> "AttributeError", aggregate |-> aggregate]
        ELSE [error |-> "", aggregate |-> update_unlabeled(aggregate, data)]

\* ------------------------------------------------ the callers' Datasets
\* column orders of the full schema: the order of the model's log, one
\* with Target first, one with Target already last
BaseOrders ==
    { <<"Global_Date", "Local_Date", "CardID", "MerchantID", "Amount",
        "Currency", "Country", "Target", "AuthSteps">>,
      <<"Target", "Amount", "Country", "Currency", "MerchantID", "CardID",
        "Local_Date", "Global_Date", "AuthSteps">>,
      <<"AuthSteps", "Global_Date", "CardID", "Amount", "Local_Date",
        "MerchantID", "Currency", "Country", "Target">> }

\* the columns of the full schema
Schema == Range(DropList) \cup {"Target", "Amount", "AuthSteps"}

\* the column lists of the Datasets callers pass: a base order, lacking at
\* most MaxMissing of its columns
InputColumns ==
    { SelectSeq(order, LAMBDA c : c \notin missing) :
        order \in BaseOrders,
        missing \in {ms \in SUBSET Schema : Cardinality(ms) <= MaxMissing} }

\* the caller's DataFrame object
Frame(columns) == [id |-> 1, columns |-> columns]

\* ------------------------------------------------------------- state
Model == [terminated |-> terminated, clock |-> clock, agent_vars |-> agent_vars]

NoCall ==
    [op |-> "__init__", num_steps |-> 0, args |-> <<>>, value |-> "None",
     log |-> <<>>, advances |-> 0, entry_terminated |-> FALSE,
     entry_clock |-> 0, warned |-> FALSE,
     after_false |-> FALSE, error |-> "", data_in |-> NoFrame,
     data_out |-> NoFrame, result |-> NoFrame,
     graph_in |-> None, aggregate_in |-> None]

NoMark == [valid |-> FALSE, clock |-> 0, rows |-> {}, emitted |-> {}]

\* the settings of the __main__ script as the file has them
n_steps == 1
clear_logs_after_print == TRUE

\* the script not started
NoMain ==
    [pc |-> "idle", n_steps |-> n_steps,
     clear_logs_after_print |-> clear_logs_after_print]

\* OnlineUnimaus.__init__: a fresh model, nothing logged, no constructors
Init ==
    /\ terminated = FALSE
    /\ clock = 0
    /\ agent_vars = [var \in Reporters |-> <<>>]
    /\ aggregate_feature_constructor = None
    /\ apate_graph_feature_constructor = None
    /\ ret = NoCall
    /\ falseReturned = FALSE
    /\ drained = FALSE
    /\ emitted = {}
    /\ delivered = {}
    /\ overlap = {}
    /\ mark = NoMark
    /\ trueReturns = 0
    /\ main = NoMain

\* the rows the collects at positions after `from` have logged, as a log
\* shows them: indexed by the collect's position, one column per reporter
LoggedSince(av, from) ==
    LET first == av[ReporterNames[1]]
    IN  {[index |-> <<p[1] - 1>>,
          cols  |-> [var \in Reporters |->
                        (CHOOSE r \in Range(av[var][p[1]]) : r[1] = p[2])[2]]] :
            p \in {q \in ((from + 1)..Len(first)) \X Agents :
                      \E r \in Range(first[q[1]]) : r[1] = q[2]}}

\* a caller calls step_simulator(num_steps); `active` are the agents that
\* transact in the hour the call simulates, if it simulates one
StepSimulator(num_steps, active) ==
    LET r == step_simulator(Model, num_steps, active)
    IN  /\ terminated' = r.model.terminated
        /\ clock' = r.model.clock
        /\ agent_vars' = r.model.agent_vars
        /\ ret' = [NoCall EXCEPT !.op = "step_simulator",
                                 !.num_steps = num_steps,
                                 !.value = r.value,
                                 !.advances = r.advances,
                                 !.warned = r.warned,
                                 !.entry_terminated = terminated,
                                 !.entry_clock = clock,
                                 !.after_false = falseReturned]
        /\ falseReturned' = (falseReturned \/ r.value = "False")
        /\ drained' = FALSE
        /\ emitted' = emitted \cup
                LoggedSince(r.model.agent_vars, Len(agent_vars[ReporterNames[1]]))
        /\ trueReturns' = trueReturns + (IF r.value = "True" THEN 1 ELSE 0)
        /\ UNCHANGED <<pipeline, delivered, overlap, mark>>

\* a caller calls get_log(*args); it may add the returned rows to the logs
\* it has collected (`collects`) and may remember this call (`remembers`)
GetLog(args, collects, remembers) ==
    LET r == get_log(Model, args)
        rows == Range(r.log)
    IN  /\ terminated' = r.model.terminated
        /\ clock' = r.model.clock
        /\ agent_vars' = r.model.agent_vars
        /\ ret' = [NoCall EXCEPT !.op = "get_log", !.args = args,
                                 !.value = "DataFrame", !.log = r.log]
        /\ drained' = (drained \/ clear_after(args))
        /\ delivered' = IF collects THEN delivered \cup rows ELSE delivered
        /\ overlap' = IF collects THEN overlap \cup (delivered \cap rows)
                                  ELSE overlap
        /\ mark' = IF remembers
                      THEN [valid |-> TRUE, clock |-> clock, rows |-> rows,
                            emitted |-> emitted]
                      ELSE mark
        /\ UNCHANGED <<pipeline, falseReturned, emitted, trueReturns>>

\* a caller calls clear_log()
ClearLog ==
    LET m == clear_log(Model)
    IN  /\ terminated' = m.terminated
        /\ clock' = m.clock
        /\ agent_vars' = m.agent_vars
        /\ ret' = [NoCall EXCEPT !.op = "clear_log"]
        /\ UNCHANGED <<pipeline, history, main>>

\* a caller calls prepare_feature_constructors(data)
PrepareFeatureConstructors(columns) ==
    LET r == prepare_feature_constructors(Frame(columns))
    IN  /\ aggregate_feature_constructor' = r.aggregate
        /\ apate_graph_feature_constructor' = r.graph
        /\ ret' = [NoCall EXCEPT !.op = "prepare_feature_constructors",
                                 !.data_in = Frame(columns),
                                 !.data_out = Frame(columns)]
        /\ UNCHANGED <<driver, history, main>>

\* a caller calls process_data(data)
ProcessData(columns) ==
    LET r == process_data(apate_graph_feature_constructor,
                          aggregate_feature_constructor, Frame(columns))
    IN  /\ ret' = [NoCall EXCEPT !.op = "process_data",
                                 !.error = r.error,
                                 !.value = IF r.error = "" THEN "DataFrame"
                                                           ELSE "raised",
                                 !.data_in = Frame(columns),
                                 !.data_out = r.data,
                                 !.result = r.value,
                                 !.graph_in = apate_graph_feature_constructor,
                                 !.aggregate_in = aggregate_feature_constructor]
        /\ UNCHANGED <<driver, pipeline, history, main>>

\* variant: both constructors are updated with the new data
UpdateBothConstructors(columns) ==
    LET r == update_feature_constructors_unlabeled(
                 aggregate_feature_constructor, Frame(columns))
    IN  /\ aggregate_feature_constructor.updates < MaxUpdates
        /\ aggregate_feature_constructor' = r.aggregate
        /\ apate_graph_feature_constructor' =
              IF r.error = ""
                  THEN update_unlabeled(apate_graph_feature_constructor,
                                        Frame(columns))
                  ELSE apate_graph_feature_constructor
        /\ ret' = [NoCall EXCEPT !.op = "update_feature_constructors_unlabeled",
                                 !.error = r.error,
                                 !.value = IF r.error = "" THEN "None"
                                                           ELSE "raised",
                                 !.data_in = Frame(columns),
                                 !.data_out = Frame(columns),
                                 !.graph_in = apate_graph_feature_constructor,
                                 !.aggregate_in = aggregate_feature_constructor]
        /\ UNCHANGED <<driver, history, main>>

\* a caller calls update_feature_constructors_unlabeled(data)
UpdateFeatureConstructorsUnlabeled(columns) ==
    LET r == update_feature_constructors_unlabeled(
                 aggregate_feature_constructor, Frame(columns))
    IN  /\ aggregate_feature_constructor.updates < MaxUpdates
        /\ aggregate_feature_constructor' = r.aggregate
        /\ ret' = [NoCall EXCEPT !.op = "update_feature_constructors_unlabeled",
                                 !.error = r.error,
                                 !.value = IF r.error = "" THEN "None"
                                                           ELSE "raised",
                                 !.data_in = Frame(columns),
                                 !.data_out = Frame(columns),
                                 !.graph_in = apate_graph_feature_constructor,
                                 !.aggregate_in = aggregate_feature_constructor]
        /\ UNCHANGED <<driver, apate_graph_feature_constructor, history, main>>

Prepare == \E columns \in BaseOrders : PrepareFeatureConstructors(columns)
Process == \E columns \in InputColumns : ProcessData(columns)
Update == \E columns \in BaseOrders : UpdateFeatureConstructorsUnlabeled(columns)

\* the feature pipeline alone
NextPipeline == Prepare \/ Process \/ Update

SpecPipeline == Init /\ [][NextPipeline]_vars

GetLogArgs == {<<>>, <<TRUE>>, <<FALSE>>}

\* the hours a step_simulator call can simulate: the choice of the
\* transacting agents matters only when the model advances
Activity(num_steps) ==
    IF num_steps >= 1 /\ ~terminated THEN SUBSET Agents ELSE {{}}

\* a caller other than the script steps the simulator
Step ==
    \E n \in StepArgs : \E active \in Activity(n) :
        StepSimulator(n, active) /\ UNCHANGED main

\* a caller other than the script drains the log
Drain(args, collects, remembers) ==
    GetLog(args, collects, remembers) /\ UNCHANGED main

\* the driver alone: stepping, draining and clearing in any order
NextDriver ==
    \/ Step
    \/ \E args \in GetLogArgs : Drain(args, FALSE, FALSE)
    \/ ClearLog

SpecDriver == Init /\ [][NextDriver]_vars

\* a caller that only steps and drains with clear_after=True and collects
\* every log it gets
NextClearing ==
    \/ Step
    \/ Drain(<<TRUE>>, TRUE, FALSE)

SpecClearing == Init /\ [][NextClearing]_vars

\* a caller that only steps and drains with clear_after=False
NextCumulative ==
    \/ Step
    \/ \E remembers \in BOOLEAN : Drain(<<FALSE>>, FALSE, remembers)

SpecCumulative == Init /\ [][NextCumulative]_vars

\* the driver, with the constructors prepared at some point
NextFacade ==
    \/ NextDriver
    \/ \E columns \in {order \in BaseOrders : order[1] = "Global_Date"} :
          PrepareFeatureConstructors(columns)

SpecFacade == Init /\ [][NextFacade]_vars

\* the driver and the pipeline calls on a facade nobody prepares
NextUnprepared ==
    \/ NextDriver
    \/ \E columns \in BaseOrders : ProcessData(columns)
    \/ Update

SpecUnprepared == Init /\ [][NextUnprepared]_vars

\* ----------------------------------------------------------- __main__
\* what Python's while takes the value returned by step_simulator for
Truthy(value) == value = "True"

\* the script is run on a simulator it has just constructed, with n_steps
\* and clear_logs_after_print as the file has them or as edited
MainStart(steps, clear) ==
    /\ main.pc = "idle"
    /\ ret = NoCall
    /\ main' = [pc |-> "while", n_steps |-> steps,
                clear_logs_after_print |-> clear]
    /\ UNCHANGED <<driver, pipeline, ret, history>>

\* variant: the loop body is entered whatever step_simulator returns
MainWhileTrue ==
    /\ main.pc = "while"
    /\ \E active \in Activity(main.n_steps) :
          StepSimulator(main.n_steps, active)
    /\ main' = [main EXCEPT !.pc = "print"]

\* while simulator.step_simulator(n_steps):
MainWhile ==
    /\ main.pc = "while"
    /\ \E active \in Activity(main.n_steps) :
          StepSimulator(main.n_steps, active)
    /\ main' = [main EXCEPT !.pc = IF Truthy(ret'.value) THEN "print"
                                                         ELSE "done"]

\* print(simulator.get_log(clear_logs_after_print)); the rows printed are
\* the ones the script's user collects
MainPrint ==
    /\ main.pc = "print"
    /\ GetLog(<<main.clear_logs_after_print>>, TRUE, FALSE)
    /\ main' = [main EXCEPT !.pc = "while"]

NextMain ==
    \/ \E steps \in 1..MaxNumSteps, clear \in BOOLEAN : MainStart(steps, clear)
    \/ MainWhile
    \/ MainPrint

\* the interpreter executes the script's next statement: the script is
\* somewhere else afterwards
MainPcs == {"idle", "while", "print", "done"}

MainRuns ==
    /\ main.pc # "done"
    /\ \E pc \in MainPcs \ {main.pc}, steps \in 1..MaxNumSteps, clear \in BOOLEAN :
          main' = [pc |-> pc, n_steps |-> steps, clear_logs_after_print |-> clear]

\* the script runs on, statement after statement, until it ends
SpecMain == Init /\ [][NextMain]_vars /\ WF_main(MainRuns)

\* every operation of the facade, in any order, or the script
Next ==
    \/ Step
    \/ \E args \in GetLogArgs : Drain(args, FALSE, FALSE)
    \/ ClearLog
    \/ Prepare
    \/ Process
    \/ Update
    \/ NextMain

Spec == Init /\ [][Next]_vars

\* =================================================================
\* Properties

IsCleared(av) == \A var \in DOMAIN av : \A s \in 1..Len(av[var]) : av[var][s] = <<>>

\* C1: termination monotonicity.  Whatever step_simulator, get_log and
\* clear_log calls are made, the model's terminated flag is never reset,
\* and once a step_simulator call has returned False no later
\* step_simulator call returns True: every later call with num_steps >= 1
\* returns False.
TerminationMonotone ==
    [][ /\ terminated => terminated'
        /\ (falseReturned /\ ret'.op = "step_simulator") =>
              /\ ret'.value # "True"
              /\ ret'.num_steps >= 1 => ret'.value = "False" ]_vars

\* a step_simulator call made after an earlier one returned False
StepAfterFalse ==
    /\ ret.op = "step_simulator"
    /\ ret.after_false
    /\ ret.num_steps >= 1
    /\ ret.value = "False"

\* C2: step_simulator(n), n >= 1, on a terminated model returns False
\* (no error), does not call model.step(), and leaves the model and the
\* log buffer as they were.
StepPastTermination ==
    [][ (terminated /\ ret'.op = "step_simulator" /\ ret'.num_steps >= 1) =>
            /\ ret'.value = "False"
            /\ ret'.advances = 0
            /\ UNCHANGED driver ]_vars

\* a step_simulator(n >= 1) call made on a model that had logged something
\* and was terminated
SteppedTerminated ==
    /\ ret.op = "step_simulator"
    /\ ret.num_steps >= 1
    /\ ret.entry_terminated
    /\ ~IsCleared(agent_vars)

\* C3: exactly-once delivery.  With steps and clearing drains only, no row
\* is in two of the returned logs, every returned row was logged by the
\* model, and right after a drain every row logged so far is in one of the
\* returned logs.
ExactlyOnceDelivery ==
    /\ overlap = {}
    /\ delivered \subseteq emitted
    /\ ret.op = "get_log" => delivered = emitted

\* a second non-empty clearing drain
SecondDrain ==
    /\ ret.op = "get_log"
    /\ ret.log # <<>>
    /\ delivered # Range(ret.log)

\* C4: a get_log call made after a clearing get_log, with no
\* step_simulator call in between, returns an empty log.
DrainAfterDrainEmpty ==
    [][ (drained /\ ret'.op = "get_log") => ret'.log = <<>> ]_vars

\* a non-clearing get_log after a clearing one that had rows to return
DrainedTwice ==
    /\ drained
    /\ ret.op = "get_log"
    /\ ret.args = <<FALSE>>
    /\ ret.log = <<>>
    /\ emitted # {}

\* C5, as claimed: with non-clearing drains only, the log returned after k
\* successful steps is a strict superset of the one returned after j < k.
CumulativeStrictSuperset ==
    (ret.op = "get_log" /\ mark.valid /\ mark.clock < clock) =>
        /\ mark.rows \subseteq Range(ret.log)
        /\ mark.rows # Range(ret.log)

\* C5, amended: it is a superset, and a strict one exactly when the model
\* logged a row in between.
CumulativeSuperset ==
    (ret.op = "get_log" /\ mark.valid /\ mark.clock < clock) =>
        /\ mark.rows \subseteq Range(ret.log)
        /\ mark.rows # Range(ret.log) <=> mark.emitted # emitted

\* a later drain that returns more than a remembered, non-empty one
DrainGrew ==
    /\ ret.op = "get_log"
    /\ mark.valid
    /\ mark.clock < clock
    /\ mark.rows # {}
    /\ mark.rows # Range(ret.log)

\* C6, as claimed: get_log called without a clear_after argument leaves
\* the log buffer unchanged.
DefaultDrainKeepsLog ==
    [][ (ret'.op = "get_log" /\ ret'.args = <<>>) =>
            agent_vars' = agent_vars ]_vars

\* C6, amended: get_log called without a clear_after argument empties the
\* log buffer, as get_log(True) does; get_log(False) leaves it unchanged.
DefaultDrainClearsLog ==
    [][ ret'.op = "get_log" =>
            IF ret'.args = <<FALSE>>
                THEN agent_vars' = agent_vars
                ELSE /\ IsCleared(agent_vars')
                     /\ \A var \in Reporters :
                           Len(agent_vars'[var]) = Len(agent_vars[var]) ]_vars

\* a get_log() call with no argument that had rows to return
DefaultDrain ==
    /\ ret.op = "get_log"
    /\ ret.args = <<>>
    /\ ret.log # <<>>
    /\ IsCleared(agent_vars)

\* C7: step_simulator(num_steps) on a model that is not terminated, and
\* does not terminate in the call, simulates num_steps hours.
RunsNumSteps ==
    (/\ ret.op = "step_simulator"
     /\ ret.num_steps >= 1
     /\ ~ret.entry_terminated
     /\ ~terminated) =>
        /\ ret.advances = ret.num_steps
        /\ clock = ret.entry_clock + ret.num_steps

ColumnContract ==
    (/\ ret.op = "process_data"
     /\ ret.graph_in.set /\ ret.aggregate_in.set
     /\ Range(DropList) \cup {"Target"} \subseteq Range(ret.data_in.columns)) =>
        LET out == ret.result.columns
            rest == SelectSeq(
                ret.data_in.columns \o GraphFeatureColumns
                                    \o AggregateFeatureColumns,
                LAMBDA c : c \notin Range(DropList) \cup {"Target"})
        IN  /\ ret.error = ""
            /\ Range(out) \cap Range(DropList) = {}
            /\ out = rest \o <<"Target">>

\* process_data has moved Target from the first place to the last
TargetMoved ==
    /\ ret.op = "process_data"
    /\ ret.error = ""
    /\ ret.data_in.columns[1] = "Target"
    /\ ret.result.columns[Len(ret.result.columns)] = "Target"

\* C10: after a successful process_data(d) the object returned is d, and d
\* has lost the six columns and has Target last.
ProcessedInPlace ==
    (ret.op = "process_data" /\ ret.error = "") =>
        /\ ret.result.id = ret.data_in.id
        /\ ret.data_out.id = ret.data_in.id
        /\ Range(ret.data_out.columns) \cap Range(DropList) = {}
        /\ ret.data_out.columns[Len(ret.data_out.columns)] = "Target"

PipelineCalls == {"process_data", "update_feature_constructors_unlabeled"}

Prepared(call) == call.graph_in.set /\ call.aggregate_in.set

HasAll(data, names) == names \subseteq Range(data.columns)

\* C11, as claimed: process_data on a Dataset that has the six drop-list
\* columns and no Target succeeds and keeps the other columns in order.
NoTargetSucceeds ==
    (/\ ret.op = "process_data"
     /\ Prepared(ret)
     /\ HasAll(ret.data_in, Range(DropList))
     /\ "Target" \notin Range(ret.data_in.columns)) =>
        /\ ret.error = ""
        /\ ret.result.columns =
              SelectSeq(ret.data_in.columns \o GraphFeatureColumns
                                            \o AggregateFeatureColumns,
                        LAMBDA c : c \notin Range(DropList))

\* C11, amended: on such a Dataset process_data raises a KeyError at the
\* reordering and returns nothing; with Target present it succeeds, Target
\* is last and the other columns keep their order.
NoTargetFails ==
    (/\ ret.op = "process_data"
     /\ Prepared(ret)
     /\ HasAll(ret.data_in, Range(DropList))) =>
        IF "Target" \in Range(ret.data_in.columns)
            THEN /\ ret.error = ""
                 /\ ret.result.columns =
                       SelectSeq(ret.data_out.columns,
                                 LAMBDA c : c # "Target") \o <<"Target">>
            ELSE /\ ret.error = "KeyError"
                 /\ ret.value = "raised"
                 /\ ret.result = NoFrame

\* process_data has failed on a Dataset with the six columns and no Target
NoTargetProcessed ==
    /\ ret.op = "process_data"
    /\ Prepared(ret)
    /\ HasAll(ret.data_in, Range(DropList))
    /\ "Target" \notin Range(ret.data_in.columns)
    /\ ret.error = "KeyError"

\* C12: prepare-before-process gate.  With both constructors unset,
\* process_data and update_feature_constructors_unlabeled raise an
\* AttributeError and return nothing; once prepare_feature_constructors
\* has set them, neither call raises an AttributeError.
PrepareGate ==
    ret.op \in PipelineCalls =>
        IF Prepared(ret)
            THEN ret.error # "AttributeError"
            ELSE /\ ret.error = "AttributeError"
                 /\ ret.value = "raised"
                 /\ ret.result = NoFrame

\* update_feature_constructors_unlabeled has failed on a fresh pipeline
UpdateBeforePrepare ==
    /\ ret.op = "update_feature_constructors_unlabeled"
    /\ ~ret.graph_in.set /\ ~ret.aggregate_in.set
    /\ ret.error = "AttributeError"

\* C13: column schema mismatch.  process_data, with the constructors
\* prepared, on a Dataset that lacks Target or one of the six drop-list
\* columns raises a KeyError and returns no Dataset.
SchemaMismatchFails ==
    (/\ ret.op = "process_data"
     /\ Prepared(ret)
     /\ ~HasAll(ret.data_in, Range(DropList) \cup {"Target"})) =>
        /\ ret.error = "KeyError"
        /\ ret.value = "raised"
        /\ ret.result = NoFrame

\* process_data has failed on a Dataset that lacks a drop-list column
DropColumnMissing ==
    /\ ret.op = "process_data"
    /\ Prepared(ret)
    /\ ~HasAll(ret.data_in, Range(DropList))
    /\ "Target" \in Range(ret.data_in.columns)
    /\ ret.error = "KeyError"

\* C14: prepare_feature_constructors fits the Graph constructor, and no
\* update_feature_constructors_unlabeled or process_data call changes it;
\* process_data changes neither constructor.
GraphConstructorFitOnce ==
    [][ /\ ret'.op = "prepare_feature_constructors" =>
              apate_graph_feature_constructor'.set
        /\ ret'.op \in PipelineCalls =>
              apate_graph_feature_constructor' = apate_graph_feature_constructor
        /\ ret'.op = "process_data" => UNCHANGED pipeline ]_vars

\* an update that has changed the Aggregate constructor
AggregateUpdated ==
    /\ ret.op = "update_feature_constructors_unlabeled"
    /\ ret.error = ""
    /\ apate_graph_feature_constructor.set
    /\ aggregate_feature_constructor # ret.aggregate_in

\* C18: process_data is not atomic on failure.  When it raises a KeyError,
\* the caller's Dataset already has the feature columns; when a drop-list
\* column is missing nothing has been dropped, and when only Target is
\* missing the six drop-list columns are gone.
FailureLeavesMutation ==
    (ret.op = "process_data" /\ ret.error = "KeyError") =>
        /\ ret.data_out.id = ret.data_in.id
        /\ ret.data_out.columns # ret.data_in.columns
        /\ HasAll(ret.data_out,
                  Range(GraphFeatureColumns) \cup Range(AggregateFeatureColumns))
        /\ IF HasAll(ret.data_in, Range(DropList))
              THEN ret.data_out.columns =
                      SelectSeq(ret.data_in.columns \o GraphFeatureColumns
                                                    \o AggregateFeatureColumns,
                                LAMBDA c : c \notin Range(DropList))
              ELSE ret.data_out.columns =
                      ret.data_in.columns \o GraphFeatureColumns
                                          \o AggregateFeatureColumns

\* process_data has failed for want of Target, after dropping the six
TargetMissingAfterDrop ==
    /\ ret.op = "process_data"
    /\ ret.error = "KeyError"
    /\ HasAll(ret.data_in, Range(DropList))
    /\ Range(ret.data_out.columns) \cap Range(DropList) = {}

\* C15: the script's loop ends.  The script reaches its end; it gets
\* there on a step_simulator call that returned False with the model
\* terminated, it prints a log after every call that returned True and
\* after no other, and by then every row logged has been printed.
MainLoopExits ==
    /\ <>(main.pc = "done")
    /\ [](/\ main.pc = "done" =>
               /\ ret.op = "step_simulator" /\ ret.value = "False"
               /\ terminated
               /\ delivered = emitted
          /\ main.pc = "print" =>
               ret.op = "step_simulator" /\ ret.value = "True"
          /\ main.pc = "while" => ret.op \in {"__init__", "get_log"})

\* the script has ended after printing rows
MainDone ==
    /\ main.pc = "done"
    /\ delivered # {}
    /\ trueReturns = Horizon

\* C16: get_log, with any clear_after, and clear_log leave the model's
\* terminated flag, its clock and both feature constructors as they are,
\* so that any step_simulator call made next returns the same value and
\* leaves the same flag and clock as it would have without them.
LogCallsLeaveModel ==
    [][ ret'.op \in {"get_log", "clear_log"} =>
            /\ UNCHANGED <<terminated, clock, pipeline>>
            /\ \A n \in StepArgs : \A active \in Activity(n) :
                  LET before == step_simulator(Model, n, active)
                      after  == step_simulator(Model', n, active)
                  IN  /\ after.value = before.value
                      /\ after.model.terminated = before.model.terminated
                      /\ after.model.clock = before.model.clock ]_vars

\* the log was cleared on a facade with a running clock and constructors
ClearedPrepared ==
    /\ ret.op = "clear_log"
    /\ clock > 0
    /\ emitted # {}
    /\ IsCleared(agent_vars)
    /\ apate_graph_feature_constructor.set

GateFailsClean ==
    [][ (ret'.op \in PipelineCalls /\ ~Prepared(ret')) =>
            /\ ret'.error = "AttributeError"
            /\ ret'.data_out = ret'.data_in
            /\ ret'.result = NoFrame
            /\ UNCHANGED <<driver, pipeline>> ]_vars

\* process_data has failed on an unprepared facade that has logged rows
ProcessBeforePrepare ==
    /\ ret.op = "process_data"
    /\ ~Prepared(ret)
    /\ ret.error = "AttributeError"
    /\ HasAll(ret.data_in, Range(DropList))
    /\ ~IsCleared(agent_vars)

====
